---- MODULE Spec2Model ----
(***************************************************************************)
(* A model of calibre/ebooks/metadata/sources/search_engines.py:           *)
(*   - query(): the per-key throttle around one fetch, run by concurrent   *)
(*     callers that share last_visited and last_visited_lock;              *)
(*   - the pure helpers (term sanitizers, quote_term, the result           *)
(*     extractors, wayback_machine_cached_url, resolve_url), computed on   *)
(*     strings that are sequences of one-character strings.                *)
(***************************************************************************)
EXTENDS Integers, Sequences, FiniteSets, TLC

VARIABLES
    now,           \* the value monotonic() returns
    last_visited,  \* the module-level defaultdict(lambda: 0)
    lock,          \* the holder of last_visited_lock, or None
    pc,            \* where each caller of query() stands
    key,           \* the key argument of each caller's current call
    solo,          \* no other call has been in flight since this one began
    lv,            \* query's local lv
    delta,         \* query's local delta
    wake,          \* the earliest time time.sleep() may return
    fetchStart,    \* the time the caller's fetch began
    raised,        \* "no", or the step of the call that raised
    stamp,         \* the value of monotonic() on its way into last_visited
    writes,        \* how many times this call stored into last_visited
    post,          \* which of dump_raw, save_raw, parser this call invoked
    fn,            \* the pure function that was applied, or "none"
    input,         \* its argument
    output         \* its result

qvars == <<now, last_visited, lock, pc, key, solo, lv, delta, wake, fetchStart,
           raised, stamp, writes, post>>

pvars == <<fn, input, output>>

vars == <<qvars, pvars>>

None == "None"

----------------------------------------------------------------------------
(* query(): lines 66-89                                                    *)

Callers == {"c1", "c2"}
Keys == {"ddg", "wayback"}

MaxTime == 4

\* Time is counted in eighths of a second. limit is 1 second by default
\* (line 69), as ddg_search calls query (line 154), and 0.25 seconds as
\* wayback_machine_cached_url calls it (line 121).
DefaultLimit == 8
WaybackLimit == 2
LimitOf(k) == IF k = "wayback" THEN WaybackLimit ELSE DefaultLimit

QInit ==
    /\ now = 1
    /\ last_visited = [k \in Keys |-> 0]
    /\ lock = None
    /\ pc = [c \in Callers |-> "idle"]
    /\ key = [c \in Callers |-> None]
    /\ solo = [c \in Callers |-> FALSE]
    /\ lv = [c \in Callers |-> 0]
    /\ delta = [c \in Callers |-> 0]
    /\ wake = [c \in Callers |-> 0]
    /\ fetchStart = [c \in Callers |-> 0]
    /\ raised = [c \in Callers |-> "no"]
    /\ stamp = [c \in Callers |-> 0]
    /\ writes = [c \in Callers |-> 0]
    /\ post = [c \in Callers |-> {}]

\* the state of the module once imported: no call of query in flight, and no
\* pure function applied
QueryInit == QInit /\ fn = "none" /\ input = None /\ output = None

\* the monotonic clock advances; it never goes back
Tick ==
    /\ now < MaxTime
    /\ now' = now + 1
    /\ UNCHANGED <<last_visited, lock, pc, key, solo, lv, delta, wake, fetchStart,
                   raised, stamp, writes, post>>
    /\ UNCHANGED pvars

\* a caller enters query(br, url, key, dump_raw, limit, parser, timeout,
\* save_raw, simple_scraper), with the limit that goes with the key.
\* dump_raw, save_raw and simple_scraper are read only at lines 76, 84 and
\* 87: their values are drawn where they are read.
Call(c, k) ==
    /\ pc[c] = "idle"
    /\ key' = [key EXCEPT ![c] = k]
    /\ solo' = [d \in Callers |-> d = c /\ \A e \in Callers : pc[e] = "idle"]
    /\ pc' = [pc EXCEPT ![c] = "acq_r"]
    /\ UNCHANGED <<now, last_visited, lock, lv, delta, wake, fetchStart,
                   raised, stamp, writes, post>>
    /\ UNCHANGED pvars

\* line 70: with last_visited_lock (entry)
AcquireRead(c) ==
    /\ pc[c] = "acq_r"
    /\ lock = None
    /\ lock' = c
    /\ pc' = [pc EXCEPT ![c] = "read"]
    /\ UNCHANGED <<now, last_visited, key, solo, lv, delta, wake, fetchStart,
                   raised, stamp, writes, post>>
    /\ UNCHANGED pvars

\* the holder of the lock once the with block of lines 70-71 has been left
LockAfterReadHeld(c) == c
LockAfterRead(c) == None

\* line 71: lv = last_visited[key], and the with block's exit
ReadVisited(c) ==
    /\ pc[c] = "read"
    /\ lv' = [lv EXCEPT ![c] = last_visited[key[c]]]
    /\ lock' = LockAfterRead(c)
    /\ pc' = [pc EXCEPT ![c] = "delta"]
    /\ UNCHANGED <<now, last_visited, key, solo, delta, wake, fetchStart,
                   raised, stamp, writes, post>>
    /\ UNCHANGED pvars

\* line 74: the argument passed to time.sleep
SleepFor(d, m) == d

\* lines 72-74: delta = monotonic() - lv; the throttle's test; time.sleep begins,
\* or the fetch of lines 76-80 begins at once
ComputeDelta(c) ==
    /\ pc[c] = "delta"
    /\ LET d == now - lv[c] IN
        /\ delta' = [delta EXCEPT ![c] = d]
        /\ IF d < LimitOf(key[c]) /\ d > 0
             THEN /\ wake' = [wake EXCEPT ![c] = now + SleepFor(d, LimitOf(key[c]))]
                  /\ pc' = [pc EXCEPT ![c] = "sleep"]
                  /\ UNCHANGED fetchStart
             ELSE /\ pc' = [pc EXCEPT ![c] = "fetching"]
                  /\ fetchStart' = [fetchStart EXCEPT ![c] = now]
                  /\ UNCHANGED wake
    /\ UNCHANGED <<now, last_visited, lock, key, solo, lv, raised, stamp, writes, post>>
    /\ UNCHANGED pvars

\* line 74: time.sleep returns, no earlier than asked; the fetch begins
Wake(c) ==
    /\ pc[c] = "sleep"
    /\ now >= wake[c]
    /\ pc' = [pc EXCEPT ![c] = "fetching"]
    /\ fetchStart' = [fetchStart EXCEPT ![c] = now]
    /\ UNCHANGED <<now, last_visited, lock, key, solo, lv, delta, wake,
                   raised, stamp, writes, post>>
    /\ UNCHANGED pvars

\* the steps of the try body at which a call may raise: br.open_novisit().read()
\* and xml_to_unicode (lines 77-78), or simple_scraper (line 80)
FetchSteps(scraper) == IF scraper THEN {"scraper"} ELSE {"open", "decode"}

\* lines 81-82: where control goes when the try body is left, normally or not
FetchExitSkipsOnRaise(r) == IF r = "no" THEN "acq_w" ELSE "raised"
FetchExit(r) == "acq_w"

\* lines 76-80: the fetch returns raw, or raises; lv and delta are dead from here
FetchEnd(c, scraper, r) ==
    /\ pc[c] = "fetching"
    /\ r \in FetchSteps(scraper) \cup {"no"}
    /\ raised' = [raised EXCEPT ![c] = r]
    /\ solo' = [solo EXCEPT ![c] = FALSE]
    /\ pc' = [pc EXCEPT ![c] = FetchExit(r)]
    /\ lv' = [lv EXCEPT ![c] = 0]
    /\ delta' = [delta EXCEPT ![c] = 0]
    /\ wake' = [wake EXCEPT ![c] = 0]
    /\ fetchStart' = [fetchStart EXCEPT ![c] = 0]
    /\ UNCHANGED <<now, last_visited, lock, key, stamp, writes, post>>
    /\ UNCHANGED pvars

\* line 82: whether the caller may enter the with block of the finally clause
WriteLockNotTaken(c) == TRUE
WriteLockFree(c) == lock = None

\* line 82: with last_visited_lock (entry), inside finally
AcquireWrite(c) ==
    /\ pc[c] = "acq_w"
    /\ WriteLockFree(c)
    /\ lock' = c
    /\ pc' = [pc EXCEPT ![c] = "stamp"]
    /\ UNCHANGED <<now, last_visited, key, solo, lv, delta, wake, fetchStart,
                   raised, stamp, writes, post>>
    /\ UNCHANGED pvars

\* line 83, right-hand side: monotonic() is called
ReadClock(c) ==
    /\ pc[c] = "stamp"
    /\ stamp' = [stamp EXCEPT ![c] = now]
    /\ pc' = [pc EXCEPT ![c] = "store"]
    /\ UNCHANGED <<now, last_visited, lock, key, solo, lv, delta, wake, fetchStart,
                   raised, writes, post>>
    /\ UNCHANGED pvars

\* line 83: last_visited[key] is assigned, and the with block's exit; then the
\* exception of the try body, if any, propagates
StoreVisited(c) ==
    /\ pc[c] = "store"
    /\ last_visited' = [last_visited EXCEPT ![key[c]] = stamp[c]]
    /\ writes' = [writes EXCEPT ![c] = @ + 1]
    /\ stamp' = [stamp EXCEPT ![c] = 0]
    /\ lock' = None
    /\ pc' = [pc EXCEPT ![c] = IF raised[c] = "no" THEN "post" ELSE "raised"]
    /\ UNCHANGED <<now, key, solo, lv, delta, wake, fetchStart, raised, post>>
    /\ UNCHANGED pvars

\* lines 84-89: dump_raw and save_raw when given, then parser(raw), which
\* returns or raises
Post(c, dump, save, ok) ==
    /\ pc[c] = "post"
    /\ post' = [post EXCEPT ![c] =
                   (IF dump THEN {"dump_raw"} ELSE {})
                   \cup (IF save THEN {"save_raw"} ELSE {})
                   \cup {"parser"}]
    /\ raised' = [raised EXCEPT ![c] = IF ok THEN "no" ELSE "parser"]
    /\ pc' = [pc EXCEPT ![c] = IF ok THEN "returned" ELSE "raised"]
    /\ UNCHANGED <<now, last_visited, lock, key, solo, lv, delta, wake, fetchStart,
                   stamp, writes>>
    /\ UNCHANGED pvars

\* the call is over: the caller has its value or its exception, the locals are gone
Leave(c) ==
    /\ pc[c] \in {"returned", "raised"}
    /\ pc' = [pc EXCEPT ![c] = "idle"]
    /\ key' = [key EXCEPT ![c] = None]
    /\ raised' = [raised EXCEPT ![c] = "no"]
    /\ writes' = [writes EXCEPT ![c] = 0]
    /\ post' = [post EXCEPT ![c] = {}]
    /\ UNCHANGED <<now, last_visited, lock, solo, lv, delta, wake, fetchStart, stamp>>
    /\ UNCHANGED pvars

QNext ==
    \/ Tick
    \/ \E c \in Callers, k \in Keys : Call(c, k)
    \/ \E c \in Callers : AcquireRead(c)
    \/ \E c \in Callers : ReadVisited(c)
    \/ \E c \in Callers : ComputeDelta(c)
    \/ \E c \in Callers : Wake(c)
    \/ \E c \in Callers, s \in BOOLEAN, r \in {"no", "open", "decode", "scraper"} :
          FetchEnd(c, s, r)
    \/ \E c \in Callers : AcquireWrite(c)
    \/ \E c \in Callers : ReadClock(c)
    \/ \E c \in Callers : StoreVisited(c)
    \/ \E c \in Callers, d \in BOOLEAN, s \in BOOLEAN, ok \in BOOLEAN : Post(c, d, s, ok)
    \/ \E c \in Callers : Leave(c)

SpecQuery == QueryInit /\ [][QNext]_vars

----------------------------------------------------------------------------
(* Properties of query()                                                   *)

\* c's call began after every other call had ended, none has begun since, and
\* the timestamp it read was recorded by an earlier call
Sequential(c) == solo[c] /\ lv[c] > 0

\* C1: a call that follows another on the same key, and observes
\* 0 < delta < limit, does not start its fetch before limit time units have
\* passed since the recorded end of the previous fetch.
C1_MinIntervalKept ==
    \A c \in Callers :
        (/\ pc[c] = "fetching"
         /\ Sequential(c)
         /\ 0 < delta[c] /\ delta[c] < LimitOf(key[c]))
        => fetchStart[c] - lv[c] >= LimitOf(key[c])

BeforeStore == {"acq_r", "read", "delta", "sleep", "fetching", "acq_w", "stamp", "store"}
FetchRaises == {"open", "decode", "scraper"}

\* C2: a call that reached the fetch stores into last_visited exactly once,
\* after the fetch attempt and whether or not it raised; when the fetch or
\* the decoding raised, the exception reaches the caller after the store and
\* none of dump_raw, save_raw, parser has run.
C2_StampOnEveryExit ==
    \A c \in Callers :
        /\ pc[c] \in BeforeStore => writes[c] = 0 /\ post[c] = {}
        /\ pc[c] \in {"post", "returned", "raised"} => writes[c] = 1
        /\ pc[c] = "post" => raised[c] = "no" /\ post[c] = {}
        /\ pc[c] = "returned" => raised[c] = "no" /\ "parser" \in post[c]
        /\ pc[c] = "raised" /\ raised[c] \in FetchRaises => post[c] = {}
        /\ pc[c] \in {"stamp", "store", "acq_w"} => raised[c] \in FetchRaises \cup {"no"}
        /\ pc[c] = "store" => stamp[c] <= now /\ stamp[c] >= 1

C2_Witness ==
    \E c \in Callers :
        /\ pc[c] = "raised"
        /\ raised[c] = "decode"
        /\ writes[c] = 1
        /\ last_visited[key[c]] = now
        /\ now > 1

\* C3: the entries of last_visited start at 0; no step lowers one, and no
\* step removes one.
C3_NeverDecreases ==
    /\ \A k \in Keys : last_visited[k] = 0
    /\ [][ /\ DOMAIN last_visited' = DOMAIN last_visited
           /\ \A k \in Keys : last_visited'[k] >= last_visited[k] ]_vars

\* two callers on one key, one storing a later time while the other, whose
\* fetch is over too, waits for the lock
C3_Witness ==
    \E k \in Keys :
        /\ last_visited[k] >= 1
        /\ pc["c1"] = "store" /\ key["c1"] = k /\ stamp["c1"] > last_visited[k]
        /\ pc["c2"] = "acq_w" /\ key["c2"] = k

InLock == {"read", "stamp", "store"}

\* one step of caller c, whatever it is
CallerStep(c) ==
    \/ AcquireRead(c) \/ ReadVisited(c) \/ ComputeDelta(c) \/ AcquireWrite(c)
    \/ ReadClock(c) \/ StoreVisited(c)
    \/ \E d \in BOOLEAN, s \in BOOLEAN, ok \in BOOLEAN : Post(c, d, s, ok)

\* C4: the lock is held only at the map read and at the map write, never by a
\* caller that sleeps or fetches; and while a caller on another key sleeps or
\* fetches, a caller that is neither sleeping nor fetching can take its next step.
C4_LockOnlyAroundMap ==
    /\ lock # None => pc[lock] \in InLock
    /\ \A c \in Callers : pc[c] \in InLock => lock = c
    /\ \A c \in Callers, d \in Callers :
          (/\ c # d
           /\ key[c] # key[d]
           /\ pc[d] \in {"sleep", "fetching"}
           /\ pc[c] \in {"acq_r", "read", "delta", "acq_w", "stamp", "store", "post"})
          => ENABLED CallerStep(c)

C4_Witness ==
    /\ pc["c1"] = "sleep" /\ now < wake["c1"]
    /\ pc["c2"] = "store"
    /\ lock = "c2"
    /\ key["c1"] # key["c2"]

----------------------------------------------------------------------------
(* Strings: a str is a sequence of one-character strings                   *)

Quote == "\""

RECURSIVE Remove(_, _)
\* str.replace(ch, ''): every occurrence of the character ch goes
Remove(t, ch) ==
    IF t = << >> THEN << >>
    ELSE IF Head(t) = ch THEN Remove(Tail(t), ch)
    ELSE <<Head(t)>> \o Remove(Tail(t), ch)

\* str.lower() of one character, over the letters the inputs are made of
LowerChar(ch) ==
    CASE ch = "A" -> "a" [] ch = "D" -> "d" [] ch = "E" -> "e" [] ch = "M" -> "m"
      [] ch = "N" -> "n" [] ch = "O" -> "o" [] ch = "P" -> "p" [] ch = "R" -> "r"
      [] ch = "S" -> "s" [] ch = "T" -> "t" [] ch = "W" -> "w"
      [] OTHER -> ch

\* str.lower()
Lower(t) == [i \in 1..Len(t) |-> LowerChar(t[i])]

\* str.startswith(p)
StartsWith(t, p) == Len(t) >= Len(p) /\ SubSeq(t, 1, Len(p)) = p

\* the index of the first occurrence of p in t at or after i, or 0
RECURSIVE Find(_, _, _)
Find(t, p, i) ==
    IF i + Len(p) - 1 > Len(t) THEN 0
    ELSE IF SubSeq(t, i, i + Len(p) - 1) = p THEN i
    ELSE Find(t, p, i + 1)

\* str.partition(sep), for a separator of one character: <<before, sep, after>>,
\* and <<t, '', ''>> when sep does not occur
Partition(t, sep) ==
    LET i == Find(t, <<sep>>, 1) IN
    IF i = 0 THEN <<t, << >>, << >>>>
    ELSE <<SubSeq(t, 1, i - 1), <<sep>>, SubSeq(t, i + 1, Len(t))>>

\* urllib's quote_plus of one character: letters, digits and '_.-' stand, a
\* space becomes '+', any other character its %XX escape
QuoteChar(ch) ==
    CASE ch = " " -> <<"+">>
      [] ch = Quote -> <<"%", "2", "2">>
      [] ch = ":" -> <<"%", "3", "A">>
      [] ch = "/" -> <<"%", "2", "F">>
      [] ch = "+" -> <<"%", "2", "B">>
      [] ch = "?" -> <<"%", "3", "F">>
      [] ch = "=" -> <<"%", "3", "D">>
      [] ch = "|" -> <<"%", "7", "C">>
      [] OTHER -> <<ch>>

RECURSIVE quote_term(_)
\* lines 92-96: quote_plus(x.encode('utf-8'))
quote_term(x) ==
    IF x = << >> THEN << >> ELSE QuoteChar(Head(x)) \o quote_term(Tail(x))

\* str.join(parts)
RECURSIVE Join(_, _)
Join(sep, parts) ==
    IF parts = << >> THEN << >>
    ELSE IF Len(parts) = 1 THEN parts[1]
    ELSE parts[1] \o sep \o Join(sep, Tail(parts))

----------------------------------------------------------------------------
(* The term sanitizers: lines 101-107, 174-178, 236-240                    *)

OR == <<"O", "R">>
AND == <<"A", "N", "D">>
NOT == <<"N", "O", "T">>
Operators == {OR, AND, NOT}
ResultTypes == {<<"m", "a", "p">>, <<"n", "e", "w", "s">>}

\* ddg_term without its first line
ddg_term_KeepsQuotes(t) ==
    LET t2 == IF Lower(t) \in ResultTypes THEN <<Quote>> \o t \o <<Quote>> ELSE t
    IN  IF t2 \in Operators THEN Lower(t2) ELSE t2

\* lines 101-107
ddg_term(t) ==
    LET t1 == Remove(t, Quote)
        t2 == IF Lower(t1) \in ResultTypes THEN <<Quote>> \o t1 \o <<Quote>> ELSE t1
    IN  IF t2 \in Operators THEN Lower(t2) ELSE t2

\* lines 174-178
bing_term(t) ==
    LET t1 == Remove(t, Quote)
    IN  IF t1 \in Operators THEN Lower(t1) ELSE t1

\* lines 236-240
google_term(t) ==
    LET t1 == Remove(t, Quote)
    IN  IF t1 \in Operators THEN Lower(t1) ELSE t1

\* the words the terms are made from, and how many quote characters go in
Words == { << >>, OR, AND, NOT, <<"o", "r">>, <<"O", "r">>, <<"O", "R", "B">>,
           <<"m", "a", "p">>, <<"M", "a", "p">>, <<"M", "A", "P">>,
           <<"n", "e", "w", "s">>, <<"N", "E", "W", "S">>, <<"m", "a", "p", "s">>,
           <<"a", " ", "b">>, <<"n", "o", "t">> }
MaxQuotes == 2

\* w with a quote character put before each position of the set at
RECURSIVE WithQuotes(_, _, _)
WithQuotes(w, at, i) ==
    IF i > Len(w) + 1 THEN << >>
    ELSE (IF i \in at THEN <<Quote>> ELSE << >>)
         \o (IF i <= Len(w) THEN <<w[i]>> ELSE << >>)
         \o WithQuotes(w, at, i + 1)

QuotedForms(w) ==
    { WithQuotes(w, at, 1) : at \in { a \in SUBSET (1..Len(w) + 1) : Cardinality(a) <= MaxQuotes } }

Terms == UNION { QuotedForms(w) : w \in Words }

TermInit == QInit /\ fn = "none" /\ output = None /\ input \in Terms

ApplyDdgTerm ==
    /\ fn = "none"
    /\ fn' = "ddg_term"
    /\ output' = ddg_term(input)
    /\ UNCHANGED <<input, qvars>>

ApplyBingTerm ==
    /\ fn = "none"
    /\ fn' = "bing_term"
    /\ output' = bing_term(input)
    /\ UNCHANGED <<input, qvars>>

ApplyGoogleTerm ==
    /\ fn = "none"
    /\ fn' = "google_term"
    /\ output' = google_term(input)
    /\ UNCHANGED <<input, qvars>>

TermNext == ApplyDdgTerm \/ ApplyBingTerm \/ ApplyGoogleTerm

SpecTerm == TermInit /\ [][TermNext]_vars

\* t without its double-quote characters
Unquoted(t) == SelectSeq(t, LAMBDA ch : ch # Quote)

HasQuote(t) == \E i \in 1..Len(t) : t[i] = Quote

Sanitizers == {"ddg_term", "bing_term", "google_term"}

\* C7 as stated: an operator token comes out lower-cased, and a term with
\* double quotes comes out as the term without them.
C7_AsStated ==
    fn \in Sanitizers =>
        /\ input \in Operators => output = Lower(input)
        /\ HasQuote(input) => output = Unquoted(input) /\ ~HasQuote(output)

\* C7, amended: an operator token comes out lower-cased; a term with double
\* quotes comes out as the term without them, s, except that s is lower-cased
\* when it is OR, AND or NOT and that ddg_term encloses s in one pair of
\* double quotes when s lower-cased is map or news.
C7_Sanitized ==
    fn \in Sanitizers =>
        /\ input \in Operators => output = Lower(input)
        /\ HasQuote(input) =>
              LET s == Unquoted(input) IN
              IF s \in Operators THEN output = Lower(s)
              ELSE IF fn = "ddg_term" /\ Lower(s) \in ResultTypes
                   THEN output = <<Quote>> \o s \o <<Quote>>
              ELSE output = s /\ ~HasQuote(output)

C7_Witness ==
    /\ fn = "ddg_term"
    /\ input = <<Quote, "M", "a", Quote, "p">>
    /\ output = <<Quote, "M", "a", "p", Quote>>

----------------------------------------------------------------------------
(* The query string of the three searches: lines 146-149, 187-190, 306-309 *)

SitePrefix == <<"s", "i", "t", "e", ":">>

\* lines 146-149: the encoded terms, the site restriction last when one is asked for
ddg_search_terms(terms, site) ==
    [i \in 1..Len(terms) |-> quote_term(ddg_term(terms[i]))]
    \o (IF site.given THEN <<quote_term(SitePrefix \o site.s)>> ELSE << >>)

\* lines 187-190
bing_search_terms(terms, site) ==
    [i \in 1..Len(terms) |-> quote_term(bing_term(terms[i]))]
    \o (IF site.given THEN <<quote_term(SitePrefix \o site.s)>> ELSE << >>)

\* lines 306-309
google_search_terms(terms, site) ==
    [i \in 1..Len(terms) |-> quote_term(google_term(terms[i]))]
    \o (IF site.given THEN <<quote_term(SitePrefix \o site.s)>> ELSE << >>)

\* lines 149, 190, 309: q = '+'.join(terms)
SearchQuery(encoded) == [terms |-> encoded, q |-> Join(<<"+">>, encoded)]

MaxTerms == 2
UserTerms == { OR, <<Quote, "m", "a", "p">>, <<"a", " ", "b">> }
TermLists == UNION { [1..n -> UserTerms] : n \in 0..MaxTerms }
SiteWords == { <<"a", ".", "b">>, <<"x">> }
\* the site argument: None (the default), or a str
NoSite == [given |-> FALSE, s |-> << >>]
Sites == { [given |-> TRUE, s |-> t] : t \in UNION { QuotedForms(w) : w \in SiteWords } }

SearchInit ==
    /\ QInit
    /\ fn = "none"
    /\ output = None
    /\ input \in [terms : TermLists, site : Sites \cup {NoSite}]

DdgSearchQuery ==
    /\ fn = "none"
    /\ fn' = "ddg_search"
    /\ output' = SearchQuery(ddg_search_terms(input.terms, input.site))
    /\ UNCHANGED <<input, qvars>>

BingSearchQuery ==
    /\ fn = "none"
    /\ fn' = "bing_search"
    /\ output' = SearchQuery(bing_search_terms(input.terms, input.site))
    /\ UNCHANGED <<input, qvars>>

GoogleSearchQuery ==
    /\ fn = "none"
    /\ fn' = "google_search"
    /\ output' = SearchQuery(google_search_terms(input.terms, input.site))
    /\ UNCHANGED <<input, qvars>>

SearchNext == DdgSearchQuery \/ BingSearchQuery \/ GoogleSearchQuery

SpecSearch == SearchInit /\ [][SearchNext]_vars

\* the sanitizer of the search fn
SanitizerOf(f, t) ==
    CASE f = "ddg_search" -> ddg_term(t)
      [] f = "bing_search" -> bing_term(t)
      [] f = "google_search" -> google_term(t)

EncodedQuote == <<"%", "2", "2">>

\* C8: with a site filter, the last term of the query is the percent-encoding
\* of the backend's sanitizer applied to 'site:' + site, and holds no encoded
\* double quote.
C8_SiteSanitized ==
    (fn \in {"ddg_search", "bing_search", "google_search"} /\ input.site.given) =>
        LET appended == output.terms[Len(output.terms)] IN
        /\ Len(output.terms) = Len(input.terms) + 1
        /\ appended = quote_term(SanitizerOf(fn, SitePrefix \o input.site.s))
        /\ Find(appended, EncodedQuote, 1) = 0

----------------------------------------------------------------------------
(* The result extractors. A parsed page is the sequence of the elements    *)
(* its xpath selects, each with the sub-elements the code asks for; urls   *)
(* and titles are opaque tokens.                                           *)

Result(url, title, cached_url) == [url |-> url, title |-> title, cached_url |-> cached_url]

\* what a function hands back: its value, or the exception that left it,
\* and what it passed to log on the way
Returned(v, log) == [exc |-> "none", ans |-> v, log |-> log]
Raised(e, log) == [exc |-> e, ans |-> << >>, log |-> log]

\* parse_qs(q)[name]: the values of the parameter, blank ones dropped
QsValues(params, name) ==
    LET named == SelectSeq(params, LAMBDA kv : kv[1] = name /\ kv[2] # "")
    IN  [i \in 1..Len(named) |-> named[i][2]]

\* lines 110-114: an href is its text, whether that starts with '/', and the
\* parameters after its '?'
ddg_href(url) ==
    IF url.relative
      THEN IF QsValues(url.params, "uddg") = << >>
             THEN [exc |-> "KeyError", v |-> ""]
             ELSE [exc |-> "none", v |-> QsValues(url.params, "uddg")[1]]
      ELSE [exc |-> "none", v |-> url.text]

RECURSIVE ddg_results(_, _, _, _)
\* lines 155-158: the loop over the result anchors, from the i-th on
ddg_results(anchors, i, ans, log) ==
    IF i > Len(anchors) THEN Returned(ans, log)
    ELSE LET a == anchors[i]
             u == ddg_href(a.href)
         IN  IF u.exc # "none" THEN Raised(u.exc, log)
             ELSE ddg_results(anchors, i + 1, Append(ans, Result(u.v, a.text, "None")), log)

\* lines 152-158 of ddg_search, query() having returned the page
ddg_search(page) ==
    ddg_results(page.items, 1, << >>, << <<"Making ddg query">> >>)

RECURSIVE Split(_, _)
\* str.split(sep), for a separator of one character
Split(t, sep) ==
    LET i == Find(t, <<sep>>, 1) IN
    IF i = 0 THEN <<t>>
    ELSE <<SubSeq(t, 1, i - 1)>> \o Split(SubSeq(t, i + 1, Len(t)), sep)

\* python's x[-2:]
LastTwo(x) == IF Len(x) <= 2 THEN x ELSE SubSeq(x, Len(x) - 1, Len(x))

\* the log line of lines 220 and 296
NoResults(page) == <<"Failed to find any results on results page, with title:", page.title>>

RECURSIVE bing_results(_, _, _, _)
\* lines 204-221: the loop over the b_algo items, from the i-th on, and the
\* test for an empty answer
bing_results(page, i, ans, log) ==
    IF i > Len(page.items)
      THEN Returned(ans, IF ans = << >> THEN Append(log, NoResults(page)) ELSE log)
    ELSE LET li == page.items[i]
             as == IF li.h2 # << >> THEN li.h2 ELSE li.header
         IN  IF as = << >> THEN Raised("IndexError", log)
             ELSE LET a == as[1] IN
                  IF li.attribution = << >>
                    THEN bing_results(page, i + 1, ans,
                            Append(log, <<"Ignoring as it has no cached page", a.text>>))
                  ELSE LET dw == LastTwo(Split(li.attribution[1], "|")) IN
                       IF Len(dw) # 2 THEN Raised("ValueError", log)
                       ELSE bing_results(page, i + 1,
                               Append(ans, Result(a.href, a.text,
                                                  <<"cc.bingj.com", page.q, dw[1], dw[2]>>)),
                               log)

\* lines 192-221 of bing_search, query() having returned the page
bing_search(page) ==
    bing_results(page, 1, << >>, << <<"Making bing query">> >>)

RECURSIVE google_cache_urls(_, _, _, _)
\* lines 257-269: the loop over the matches of pat, from the i-th on; ans
\* maps a source url to its cache url
google_cache_urls(matches, i, seen, ans) ==
    IF i > Len(matches) THEN [exc |-> "none", v |-> ans]
    ELSE LET m == matches[i] IN
         IF ~m.cache THEN [exc |-> "AttributeError", v |-> ans]
         ELSE IF m.id \in seen THEN google_cache_urls(matches, i + 1, seen, ans)
         ELSE google_cache_urls(matches, i + 1, seen \cup {m.id},
                 [u \in DOMAIN ans \cup {m.src} |-> IF u = m.src THEN m.url ELSE ans[u]])

\* lines 247-269
google_extract_cache_urls(raw) == google_cache_urls(raw, 1, {}, << >>)

RECURSIVE google_results(_, _, _, _, _)
\* lines 275-297: the loop over the result divs, from the i-th on, and the
\* test for an empty answer
google_results(page, cache_url_map, i, ans, log) ==
    IF i > Len(page.items)
      THEN Returned(ans, IF ans = << >> THEN Append(log, NoResults(page)) ELSE log)
    ELSE LET div == page.items[i] IN
         IF div.anchors = << >>
           THEN google_results(page, cache_url_map, i + 1, ans,
                   Append(log, <<"Ignoring div with no main result link">>))
         ELSE LET a == div.anchors[1] IN
              IF a.href \in DOMAIN cache_url_map
                THEN google_results(page, cache_url_map, i + 1,
                        Append(ans, Result(a.href, a.text, cache_url_map[a.href])), log)
              ELSE IF div.menu = << >>
                THEN google_results(page, cache_url_map, i + 1, ans,
                        Append(log, <<"Ignoring as it has no cached page", a.text>>))
              ELSE google_results(page, cache_url_map, i + 1,
                        Append(ans, Result(a.href, a.text, div.menu[1])), log)

\* lines 272-297
google_parse_results(page) ==
    LET cache_url_map == google_extract_cache_urls(page.raw) IN
    IF cache_url_map.exc # "none" THEN Raised(cache_url_map.exc, << >>)
    ELSE google_results(page, cache_url_map.v, 1, << >>, << >>)

\* the pages: how many candidate elements, and what each may look like
MaxItems == 2
MaxMatches == 2

SeqsUpTo(S, n) == UNION { [1..k -> S] : k \in 0..n }

DdgHrefs ==
    { [relative |-> FALSE, text |-> "http://a", params |-> << >>],
      [relative |-> TRUE, text |-> "/l/", params |-> << <<"uddg", "http://b">>, <<"rut", "x">> >>],
      [relative |-> TRUE, text |-> "/l/", params |-> << <<"rut", "x">> >>],
      [relative |-> TRUE, text |-> "/l/", params |-> << <<"uddg", "">> >>],
      [relative |-> TRUE, text |-> "/y.js", params |-> << >>] }
DdgAnchors == { [href |-> h, text |-> "t"] : h \in DdgHrefs }
DdgPages ==
    { [engine |-> "ddg", title |-> "T", items |-> s] : s \in SeqsUpTo(DdgAnchors, MaxItems) }

BingAttributions ==
    { <<"d", "|", "w">>, <<"a", "|", "d", "|", "w">>, <<"d", "w">>, << >> }
BingItems ==
    [ h2 : { << >>, << [href |-> "http://a", text |-> "t"] >> },
      header : { << >>, << [href |-> "http://b", text |-> "u"] >> },
      attribution : { << >> } \cup { <<u>> : u \in BingAttributions } ]
BingPages ==
    { [engine |-> "bing", title |-> "T", q |-> "q", items |-> s] : s \in SeqsUpTo(BingItems, MaxItems) }

GoogleMatches ==
    { [cache |-> FALSE, id |-> "", src |-> "", url |-> "webcache/x"],
      [cache |-> TRUE, id |-> "i1", src |-> "http://a", url |-> "webcache/cache:i1:http://a"],
      [cache |-> TRUE, id |-> "i1", src |-> "http://b", url |-> "webcache/cache:i1:http://b"],
      [cache |-> TRUE, id |-> "i2", src |-> "http://a", url |-> "webcache/cache:i2:http://a"] }
GoogleDivs ==
    [ anchors : { << >>, << [href |-> "http://a", text |-> "t"] >>,
                  << [href |-> "http://b", text |-> "u"] >> },
      menu : { << >>, <<"webcache/m">> } ]
GooglePages ==
    { [engine |-> "google", title |-> "T", raw |-> r, items |-> s] :
        r \in SeqsUpTo(GoogleMatches, MaxMatches), s \in SeqsUpTo(GoogleDivs, MaxItems) }

ExtractInit ==
    /\ QInit
    /\ fn = "none"
    /\ output = None
    /\ input \in DdgPages \cup BingPages \cup GooglePages

DdgExtract ==
    /\ fn = "none"
    /\ input.engine = "ddg"
    /\ fn' = "ddg_search"
    /\ output' = ddg_search(input)
    /\ UNCHANGED <<input, qvars>>

BingExtract ==
    /\ fn = "none"
    /\ input.engine = "bing"
    /\ fn' = "bing_search"
    /\ output' = bing_search(input)
    /\ UNCHANGED <<input, qvars>>

GoogleExtract ==
    /\ fn = "none"
    /\ input.engine = "google"
    /\ fn' = "google_parse_results"
    /\ output' = google_parse_results(input)
    /\ UNCHANGED <<input, qvars>>

ExtractNext == DdgExtract \/ BingExtract \/ GoogleExtract

SpecExtract == ExtractInit /\ [][ExtractNext]_vars

Extractors == {"ddg_search", "bing_search", "google_parse_results"}

\* the log entries that report a skipped candidate
Skips(log) ==
    Len(SelectSeq(log, LAMBDA e : e[1] \in {"Ignoring as it has no cached page",
                                           "Ignoring div with no main result link"}))

\* the log entries that report the title of the page
TitleLogs(log, title) == Len(SelectSeq(log, LAMBDA e : Len(e) = 2 /\ e[2] = title))

\* C5: whatever a candidate lacks, the extraction raises nothing: each
\* candidate is either returned or skipped with one log entry.
C5_NeverRaises ==
    fn \in Extractors =>
        /\ output.exc = "none"
        /\ Len(output.ans) + Skips(output.log) = Len(input.items)

\* C6: a page with no matching result element gives the empty sequence and
\* exactly one log entry with the page's title.
C6_EmptyPageLogsTitle ==
    (fn \in Extractors /\ input.items = << >>) =>
        /\ output.exc = "none"
        /\ output.ans = << >>
        /\ TitleLogs(output.log, input.title) = 1

----------------------------------------------------------------------------
(* wayback_machine_cached_url: lines 117-129. A decoded JSON value is a    *)
(* record tagged with its python type.                                     *)

JNull == [t |-> "null"]
JBool(b) == [t |-> "bool", b |-> b]
JNum(n) == [t |-> "num", n |-> n]
JStr(str) == [t |-> "str", s |-> str]
JList(items) == [t |-> "list", items |-> items]
JObj(m) == [t |-> "obj", m |-> m]

\* v[k] for a str k: the value, or the exception python raises
GetItem(v, k) ==
    IF v.t = "obj"
      THEN IF k \in DOMAIN v.m THEN [exc |-> "none", v |-> v.m[k]]
           ELSE [exc |-> "KeyError", v |-> JNull]
      ELSE [exc |-> "TypeError", v |-> JNull]

\* the truth value of v
Truthy(v) ==
    CASE v.t = "null" -> FALSE
      [] v.t = "bool" -> v.b
      [] v.t = "num" -> v.n # 0
      [] v.t = "str" -> v.s # << >>
      [] v.t = "list" -> v.items # << >>
      [] v.t = "obj" -> DOMAIN v.m # {}

RECURSIVE Replace(_, _, _)
\* str.replace(old, new): every occurrence, left to right
Replace(t, old, new) ==
    IF t = << >> THEN << >>
    ELSE IF StartsWith(t, old) THEN new \o Replace(SubSeq(t, Len(old) + 1, Len(t)), old, new)
    ELSE <<Head(t)>> \o Replace(Tail(t), old, new)

Http == <<"h", "t", "t", "p", ":">>
Https == <<"h", "t", "t", "p", "s", ":">>

\* line 126 with a narrower except clause
CaughtKeyErrorOnly(e) == e = "KeyError"

\* line 126: except Exception
Caught(e) == TRUE

\* line 129: log('Response from wayback machine:', pformat(data)), and the
\* function's end, which returns None
LogResponse(data) == Returned(JNull, << <<"Response from wayback machine:", data>> >>)

\* lines 126-129: an exception of the try body is caught, or leaves the function
Except(e, data) == IF Caught(e) THEN LogResponse(data) ELSE Raised(e, << >>)

\* lines 122-129, query() having returned data
wayback_machine_cached_url(data) ==
    LET snapshots == GetItem(data, "archived_snapshots") IN
    IF snapshots.exc # "none" THEN Except(snapshots.exc, data) ELSE
    LET closest == GetItem(snapshots.v, "closest") IN
    IF closest.exc # "none" THEN Except(closest.exc, data) ELSE
    LET available == GetItem(closest.v, "available") IN
    IF available.exc # "none" THEN Except(available.exc, data) ELSE
    IF ~Truthy(available.v) THEN LogResponse(data) ELSE
    LET url == GetItem(closest.v, "url") IN
    IF url.exc # "none" THEN Except(url.exc, data) ELSE
    IF url.v.t # "str" THEN Except("AttributeError", data) ELSE
    Returned(JStr(Replace(url.v.s, Http, Https)), << >>)

\* the responses: urls of up to MaxUrlParts parts, and values of the right
\* and of the wrong types at each level
MaxUrlParts == 3
UrlParts == { Http, Https, <<"/", "/", "a", "/">>, <<"f", "t", "p", ":">> }

RECURSIVE Concat(_)
Concat(parts) == IF parts = << >> THEN << >> ELSE Head(parts) \o Concat(Tail(parts))

UrlStrings == { Concat(ps) : ps \in SeqsUpTo(UrlParts, MaxUrlParts) }

WrongTypes == { JNull, JNum(1), JStr(<<"x">>), JList(<< >>) }
UrlValues == { JStr(u) : u \in UrlStrings } \cup { JNull, JNum(1), JList(<< >>) }
AvailableValues ==
    { JBool(TRUE), JBool(FALSE), JNull, JNum(0), JNum(1), JStr(<< >>), JStr(<<"x">>) }

\* the objects with some of the keys of m
Objects(m) == { JObj([k \in ks |-> m[k]]) : ks \in SUBSET DOMAIN m }

ClosestValues ==
    WrongTypes \cup UNION { Objects([available |-> a, url |-> u]) :
                              a \in AvailableValues, u \in UrlValues }
SnapshotsValues == WrongTypes \cup UNION { Objects([closest |-> c]) : c \in ClosestValues }
Responses ==
    WrongTypes \cup UNION { Objects([archived_snapshots |-> sn]) : sn \in SnapshotsValues }

WaybackInit ==
    /\ QInit
    /\ fn = "none"
    /\ output = None
    /\ input \in Responses

WaybackCachedUrl ==
    /\ fn = "none"
    /\ fn' = "wayback_machine_cached_url"
    /\ output' = wayback_machine_cached_url(input)
    /\ UNCHANGED <<input, qvars>>

SpecWayback == WaybackInit /\ [][WaybackCachedUrl]_vars

HasKey(v, k) == v.t = "obj" /\ k \in DOMAIN v.m

\* the response holds archived_snapshots.closest with a true available and a
\* str url
SnapshotAvailable(data) ==
    /\ HasKey(data, "archived_snapshots")
    /\ HasKey(data.m["archived_snapshots"], "closest")
    /\ LET c == data.m["archived_snapshots"].m["closest"] IN
       /\ HasKey(c, "available") /\ Truthy(c.m["available"])
       /\ HasKey(c, "url") /\ c.m["url"].t = "str"

SnapshotUrl(data) == data.m["archived_snapshots"].m["closest"].m["url"].s

\* u with its scheme, when that is http:, made https:
SchemeForced(u) ==
    IF StartsWith(u, Http) THEN Https \o SubSeq(u, Len(Http) + 1, Len(u)) ELSE u

\* the pieces of t between the occurrences of p
RECURSIVE Pieces(_, _)
Pieces(t, p) ==
    LET i == Find(t, p, 1) IN
    IF i = 0 THEN <<t>>
    ELSE <<SubSeq(t, 1, i - 1)>> \o Pieces(SubSeq(t, i + Len(p), Len(t)), p)

\* u with each of its occurrences of http: made https:
EveryHttpForced(u) == Join(Https, Pieces(u, Http))

\* what happens when no snapshot can be had from the response
Absent(data) ==
    /\ output.exc = "none"
    /\ output.ans = JNull
    /\ output.log = << <<"Response from wayback machine:", data>> >>

----------------------------------------------------------------------------
(* resolve_url and the url processors: lines 132-141, 181-182, 335-341     *)

ArchiveHost ==
    <<"h", "t", "t", "p", "s", ":", "/", "/", "w", "e", "b", ".",
      "a", "r", "c", "h", "i", "v", "e", ".", "o", "r", "g">>

\* whether re's https?: matches t at i
HttpAt(t, i) ==
    \/ i + 4 <= Len(t) /\ SubSeq(t, i, i + 4) = Http
    \/ i + 5 <= Len(t) /\ SubSeq(t, i, i + 5) = Https

\* line 136: re.search('https?:', url), as m.start() + 1, or 0 for None
RECURSIVE SearchHttp(_, _)
SearchHttp(t, i) ==
    IF i > Len(t) THEN 0 ELSE IF HttpAt(t, i) THEN i ELSE SearchHttp(t, i + 1)

\* wayback_url_processor without its search for the original url
wayback_url_processor_NoSearch(url) ==
    IF StartsWith(url, <<"/">>) THEN ArchiveHost \o url ELSE url

\* lines 132-141
wayback_url_processor(url) ==
    IF StartsWith(url, <<"/">>)
      THEN LET m == SearchHttp(url, 1) IN
           IF m = 0 THEN ArchiveHost \o url ELSE SubSeq(url, m, Len(url))
      ELSE url

\* lines 181-182
bing_url_processor(url) == url

Bing == <<"b", "i", "n", "g">>
Wayback == <<"w", "a", "y", "b", "a", "c", "k">>

\* lines 335-341
resolve_url(url) ==
    LET parts == Partition(url, ":")
        prefix == parts[1]
        rest == parts[3]
    IN  IF prefix = Bing THEN bing_url_processor(rest)
        ELSE IF prefix = Wayback THEN wayback_url_processor(rest)
        ELSE url

\* the inputs: a beginning, then up to MaxRestParts parts
MaxRestParts == 3
Beginnings ==
    { << >>, Bing, Wayback, Bing \o <<":">>, Wayback \o <<":">>,
      <<"x", ":">>, <<"w", "a", "y", ":">>, Http }
RestParts == { <<"/">>, Http, Https, <<"w">>, <<":">> }
TaggedUrls ==
    { b \o Concat(ps) : b \in Beginnings, ps \in SeqsUpTo(RestParts, MaxRestParts) }

ResolveInit ==
    /\ QInit
    /\ fn = "none"
    /\ output = None
    /\ input \in TaggedUrls

ResolveUrl ==
    /\ fn = "none"
    /\ fn' = "resolve_url"
    /\ output' = resolve_url(input)
    /\ UNCHANGED <<input, qvars>>

SpecResolve == ResolveInit /\ [][ResolveUrl]_vars

Colons(u) == { i \in 1..Len(u) : u[i] = ":" }
Least(S) == CHOOSE i \in S : \A j \in S : i <= j

\* the text before the first ':' of u, all of u when it has none
Tag(u) == IF Colons(u) = {} THEN u ELSE SubSeq(u, 1, Least(Colons(u)) - 1)

\* the text after the first ':' of u
Remainder(u) == IF Colons(u) = {} THEN << >> ELSE SubSeq(u, Least(Colons(u)) + 1, Len(u))

\* where http: or https: occurs in t
HttpPlaces(t) ==
    { i \in 1..Len(t) : \E n \in {5, 6} :
        i + n - 1 <= Len(t) /\ SubSeq(t, i, i + n - 1) \in {Http, Https} }

====
